---- MODULE Spec2Model ----
(***************************************************************************)
(* Model of sql/type.go: the built-in SQL types (Null, Integer,            *)
(* BigInteger, Float, String, Boolean, Blob, TimestampWithTimezone), their *)
(* Check / Convert / Compare / Default / SQL methods, Column.Check,        *)
(* Schema.CheckRow and MustConvert.                                        *)
(*                                                                         *)
(* A Go interface{} value is a record [kind, val]: kind is the dynamic     *)
(* type, val its payload.  Integers are kept at their real width: the      *)
(* payload of an integer is its 64-bit two's-complement pattern (sign- or  *)
(* zero-extended from the width of its kind), as four 16-bit limbs, least  *)
(* significant first.  A Go string is its sequence of bytes.               *)
(***************************************************************************)
EXTENDS Integers, Sequences, FiniteSets, TLC

VARIABLES
    intSize,    \* width of Go's int and uint in this build: 32 or 64
    call,       \* the operation last invoked, with its receiver and arguments
    ret         \* what that invocation produced: a return, an error or a panic

vars == <<intSize, call, ret>>

\* Longest schema / row the row-validation actions draw.
MaxCols == 2

\* ------------------------------------------------------------------------
\* 64-bit patterns as four 16-bit limbs
\* ------------------------------------------------------------------------
Limb == 2^16

Zero64 == <<0, 0, 0, 0>>

\* (1<<31)-1, -(1<<31), 1<<31 and 1<<63 as patterns
MaxInt32 == <<65535, 32767, 0, 0>>
MinInt32 == <<0, 32768, 65535, 65535>>
Cutoff32 == <<0, 32768, 0, 0>>
Cutoff64 == <<0, 0, 0, 32768>>

IsNeg(p) == p[4] >= 32768

\* a < b, both read as unsigned 64-bit
ULess(a, b) ==
    \/ a[4] < b[4]
    \/ a[4] = b[4] /\ a[3] < b[3]
    \/ a[4] = b[4] /\ a[3] = b[3] /\ a[2] < b[2]
    \/ a[4] = b[4] /\ a[3] = b[3] /\ a[2] = b[2] /\ a[1] < b[1]

\* a < b, both read as signed 64-bit
SLess(a, b) ==
    IF IsNeg(a) # IsNeg(b) THEN IsNeg(a) ELSE ULess(a, b)

\* Go's int32(x) for a 64-bit x: keep the low 32 bits, read them as signed
TruncS32(p) ==
    LET ext == IF p[2] >= 32768 THEN 65535 ELSE 0
    IN  <<p[1], p[2], ext, ext>>

\* p * 10 + d on 64 bits; ovf is set when the result needs more than 64 bits
MulAdd10(p, d) ==
    LET t1 == p[1] * 10 + d
        t2 == p[2] * 10 + (t1 \div Limb)
        t3 == p[3] * 10 + (t2 \div Limb)
        t4 == p[4] * 10 + (t3 \div Limb)
    IN  [pat |-> <<t1 % Limb, t2 % Limb, t3 % Limb, t4 % Limb>>,
         ovf |-> t4 \div Limb > 0]

\* two's-complement negation on 64 bits
Negate(p) ==
    LET t1 == (65535 - p[1]) + 1
        t2 == (65535 - p[2]) + (t1 \div Limb)
        t3 == (65535 - p[3]) + (t2 \div Limb)
        t4 == (65535 - p[4]) + (t3 \div Limb)
    IN  <<t1 % Limb, t2 % Limb, t3 % Limb, t4 % Limb>>

\* the pattern is the sign extension of a w-bit signed integer
FitsS(p, w) ==
    CASE w = 8  -> \/ p[1] < 128 /\ p[2] = 0 /\ p[3] = 0 /\ p[4] = 0
                   \/ p[1] >= Limb - 128 /\ p[2] = 65535 /\ p[3] = 65535 /\ p[4] = 65535
      [] w = 16 -> \/ p[1] < 32768 /\ p[2] = 0 /\ p[3] = 0 /\ p[4] = 0
                   \/ p[1] >= 32768 /\ p[2] = 65535 /\ p[3] = 65535 /\ p[4] = 65535
      [] w = 32 -> \/ p[2] < 32768 /\ p[3] = 0 /\ p[4] = 0
                   \/ p[2] >= 32768 /\ p[3] = 65535 /\ p[4] = 65535
      [] OTHER  -> TRUE

\* the pattern is the zero extension of a w-bit unsigned integer
FitsU(p, w) ==
    CASE w = 8  -> p[1] < 256 /\ p[2] = 0 /\ p[3] = 0 /\ p[4] = 0
      [] w = 16 -> p[2] = 0 /\ p[3] = 0 /\ p[4] = 0
      [] w = 32 -> p[3] = 0 /\ p[4] = 0
      [] OTHER  -> TRUE

\* ------------------------------------------------------------------------
\* Go values
\* ------------------------------------------------------------------------
SignedKinds == {"int", "int8", "int16", "int32", "int64"}
UnsignedKinds == {"uint", "uint8", "uint16", "uint32", "uint64"}
IntKinds == SignedKinds \cup UnsignedKinds

V(k, x) == [kind |-> k, val |-> x]

\* the untyped nil interface value
Nil == V("nil", <<>>)

\* width in bits of an integer kind in a build whose int has `size` bits
Width(k, size) ==
    CASE k \in {"int8", "uint8"}   -> 8
      [] k \in {"int16", "uint16"} -> 16
      [] k \in {"int32", "uint32"} -> 32
      [] k \in {"int64", "uint64"} -> 64
      [] OTHER                     -> size

\* a float32 / float64 payload: a number (counted in halves) or NaN
FloatNum(n) == [nan |-> FALSE, num |-> n]
NaN == [nan |-> TRUE, num |-> 0]

\* what a call produced: a normal return (with the value returned), a returned
\* error, or a run-time panic
Ok(v) == [status |-> "ok", val |-> v, err |-> "nil"]
Err(e) == [status |-> "err", val |-> Nil, err |-> e]
Panic(e) == [status |-> "panic", val |-> Nil, err |-> e]

\* ------------------------------------------------------------------------
\* strconv.Atoi, as convertToInt32 and convertToInt64 call it
\* ------------------------------------------------------------------------
RECURSIVE ParseUint(_, _, _)
ParseUint(s, i, acc) ==
    IF i > Len(s) THEN acc
    ELSE IF s[i] < 48 \/ s[i] > 57 THEN [acc EXCEPT !.syntax = TRUE]
    ELSE LET m == MulAdd10(acc.pat, s[i] - 48)
         IN  ParseUint(s, i + 1, [syntax |-> acc.syntax,
                                  range  |-> acc.range \/ m.ovf,
                                  pat    |-> m.pat])

\* [ok, n]: n is the int parsed (as a pattern) when ok; not ok on a syntax
\* error or when the number does not fit an int of `size` bits
Atoi(s, size) ==
    LET signed == Len(s) > 0 /\ s[1] \in {43, 45}
        neg    == Len(s) > 0 /\ s[1] = 45
        digits == IF signed THEN Tail(s) ELSE s
        u      == ParseUint(digits, 1, [syntax |-> FALSE, range |-> FALSE, pat |-> Zero64])
        cutoff == IF size = 32 THEN Cutoff32 ELSE Cutoff64
        fail   == [ok |-> FALSE, n |-> Zero64]
    IN  IF Len(digits) = 0 \/ u.syntax \/ u.range THEN fail
        ELSE IF ~neg /\ ~ULess(u.pat, cutoff) THEN fail
        ELSE IF neg /\ ULess(cutoff, u.pat) THEN fail
        ELSE [ok |-> TRUE, n |-> IF neg THEN Negate(u.pat) ELSE u.pat]

\* ------------------------------------------------------------------------
\* Integer (int32)
\* ------------------------------------------------------------------------
checkInt32(v) == v.kind = "int32"

convertToInt32(v, size) ==
    CASE v.kind = "int" -> Ok(V("int32", TruncS32(v.val)))
      [] v.kind \in {"int8", "int16"} -> Ok(V("int32", TruncS32(v.val)))
      [] v.kind = "int32" -> Ok(v)
      [] v.kind = "int64" ->
            IF SLess(MaxInt32, v.val) \/ SLess(v.val, MinInt32)
            THEN Err("overflows int32")
            ELSE Ok(V("int32", TruncS32(v.val)))
      [] v.kind \in {"uint8", "uint16"} -> Ok(V("int32", TruncS32(v.val)))
      [] v.kind \in {"uint", "uint32", "uint64"} ->
            IF ULess(MaxInt32, v.val)
            THEN Err("overflows int32")
            ELSE Ok(V("int32", TruncS32(v.val)))
      [] v.kind = "string" ->
            LET a == Atoi(v.val, size)
            IN  IF ~a.ok THEN Err("can't be converted to int32")
                ELSE Ok(V("int32", TruncS32(a.n)))
      [] OTHER -> Err("ErrInvalidType")

compareInt32(a, b) ==
    IF a.kind # "int32" \/ b.kind # "int32" THEN Panic("interface conversion")
    ELSE IF SLess(a.val, b.val) THEN Ok(-1)
    ELSE IF SLess(b.val, a.val) THEN Ok(1)
    ELSE Ok(0)

\* ------------------------------------------------------------------------
\* BigInteger (int64)
\* ------------------------------------------------------------------------
checkInt64(v) == v.kind = "int64"

\* Go's int64(x): the 64-bit pattern of x, read as signed
ToInt64(p) == <<p[1], p[2], p[3], p[4]>>

convertToInt64(v, size) ==
    CASE v.kind \in {"int", "int8", "int16", "int32"} -> Ok(V("int64", ToInt64(v.val)))
      [] v.kind = "int64" -> Ok(v)
      [] v.kind \in {"uint", "uint8", "uint16", "uint32"} -> Ok(V("int64", ToInt64(v.val)))
      [] v.kind = "uint64" ->
            IF ~ULess(v.val, Cutoff64)
            THEN Err("overflows int64")
            ELSE Ok(V("int64", ToInt64(v.val)))
      [] v.kind = "string" ->
            LET a == Atoi(v.val, size)
            IN  IF ~a.ok THEN Err("can't be converted to int64")
                ELSE Ok(V("int64", ToInt64(a.n)))
      [] OTHER -> Err("ErrInvalidType")

compareInt64(a, b) ==
    IF a.kind # "int64" \/ b.kind # "int64" THEN Panic("interface conversion")
    ELSE IF SLess(a.val, b.val) THEN Ok(-1)
    ELSE IF SLess(b.val, a.val) THEN Ok(1)
    ELSE Ok(0)

\* ------------------------------------------------------------------------
\* Boolean, Float, String
\* ------------------------------------------------------------------------
checkBoolean(v) == v.kind = "bool"

convertToBool(v) ==
    IF v.kind = "bool" THEN Ok(v) ELSE Err("ErrInvalidType")

\* faulty variant: the last branch is lost, every unequal pair orders as "less"
compareBool_NoElse(a, b) ==
    IF a.kind # "bool" \/ b.kind # "bool" THEN Panic("interface conversion")
    ELSE IF a.val = b.val THEN Ok(0)
    ELSE Ok(-1)

compareBool(a, b) ==
    IF a.kind # "bool" \/ b.kind # "bool" THEN Panic("interface conversion")
    ELSE IF a.val = b.val THEN Ok(0)
    ELSE IF a.val = FALSE THEN Ok(-1)
    ELSE Ok(1)

checkFloat64(v) == v.kind = "float32"

\* faulty variant: the float32 is widened to the float64 the type's name promises
convertToFloat64_Widened(v) ==
    IF v.kind = "float32" THEN Ok(V("float64", v.val)) ELSE Err("ErrInvalidType")

convertToFloat64(v) ==
    IF v.kind = "float32" THEN Ok(v) ELSE Err("ErrInvalidType")

\* Go's < on floats: false whenever an operand is NaN
FLess(x, y) == ~x.nan /\ ~y.nan /\ x.num < y.num

compareFloat64(a, b) ==
    IF a.kind # "float32" \/ b.kind # "float32" THEN Panic("interface conversion")
    ELSE IF FLess(a.val, b.val) THEN Ok(-1)
    ELSE IF FLess(b.val, a.val) THEN Ok(1)
    ELSE Ok(0)

\* strings.Compare / bytes.Compare: lexicographic order of the bytes
RECURSIVE CompareBytes(_, _, _)
CompareBytes(x, y, i) ==
    IF i > Len(x) /\ i > Len(y) THEN 0
    ELSE IF i > Len(x) THEN -1
    ELSE IF i > Len(y) THEN 1
    ELSE IF x[i] < y[i] THEN -1
    ELSE IF x[i] > y[i] THEN 1
    ELSE CompareBytes(x, y, i + 1)

checkString(v) == v.kind = "string"

compareString(a, b) ==
    IF a.kind # "string" \/ b.kind # "string" THEN Panic("interface conversion")
    ELSE Ok(CompareBytes(a.val, b.val, 1))

\* ------------------------------------------------------------------------
\* time.Time: an instant, as the seconds since the Unix epoch (a signed
\* 64-bit pattern) and the nanoseconds within the second.  The location of
\* a time.Time is not kept: it does not take part in Before / After.
\* ------------------------------------------------------------------------
TimeVal(sec, nsec) == [sec |-> sec, nsec |-> nsec]

\* the zero time.Time{}: January 1, year 1, 00:00:00 UTC = -62135596800 s
ZeroTime == TimeVal(<<2304, 34926, 65521, 65535>>, 0)

\* time.Unix(sec, 0)
TimeUnix(sec) == TimeVal(sec, 0)

\* 0 <= n < 2^31 as a pattern, and back
FromNat(n) == <<n % Limb, n \div Limb, 0, 0>>
ToNat(p) == p[1] + p[2] * Limb

\* p * k (1 <= k < 2^15) and p + a (0 <= a < 2^30), modulo 2^64
MulSmall(p, k) ==
    LET t1 == p[1] * k
        t2 == p[2] * k + (t1 \div Limb)
        t3 == p[3] * k + (t2 \div Limb)
        t4 == p[4] * k + (t3 \div Limb)
    IN  <<t1 % Limb, t2 % Limb, t3 % Limb, t4 % Limb>>

AddSmall(p, a) ==
    LET t1 == p[1] + a
        t2 == p[2] + (t1 \div Limb)
        t3 == p[3] + (t2 \div Limb)
        t4 == p[4] + (t3 \div Limb)
    IN  <<t1 % Limb, t2 % Limb, t3 % Limb, t4 % Limb>>

\* unsigned p divided by k (1 <= k < 2^15): quotient q and remainder r
DivSmall(p, k) ==
    LET t4 == p[4]
        t3 == (t4 % k) * Limb + p[3]
        t2 == (t3 % k) * Limb + p[2]
        t1 == (t2 % k) * Limb + p[1]
    IN  [q |-> <<t1 \div k, t2 \div k, t3 \div k, t4 \div k>>, r |-> t1 % k]

IsLeap(y) == y % 4 = 0 /\ (y % 100 # 0 \/ y % 400 = 0)

DaysIn(y, m) ==
    IF m = 2 THEN (IF IsLeap(y) THEN 29 ELSE 28)
    ELSE IF m \in {4, 6, 9, 11} THEN 30 ELSE 31

\* days from 1970-01-01 to the civil date y-m-d (proleptic Gregorian)
DaysFromCivil(y, m, d) ==
    LET yy  == IF m <= 2 THEN y - 1 ELSE y
        era == yy \div 400
        yoe == yy - era * 400
        mp  == IF m > 2 THEN m - 3 ELSE m + 9
        doy == (153 * mp + 2) \div 5 + d - 1
        doe == yoe * 365 + yoe \div 4 - yoe \div 100 + doy
    IN  era * 146097 + doe - 719468

\* the civil date of the day `z` days after 1970-01-01
CivilFromDays(z) ==
    LET zz  == z + 719468
        era == zz \div 146097
        doe == zz - era * 146097
        yoe == (doe - doe \div 1460 + doe \div 36524 - doe \div 146096) \div 365
        doy == doe - (365 * yoe + yoe \div 4 - yoe \div 100)
        mp  == (5 * doy + 2) \div 153
        d   == doy - (153 * mp + 2) \div 5 + 1
        m   == IF mp < 10 THEN mp + 3 ELSE mp - 9
        y   == yoe + era * 400 + (IF m <= 2 THEN 1 ELSE 0)
    IN  [year |-> y, month |-> m, day |-> d]

\* the instant `days` days and `sod` seconds after the epoch, as a pattern
SecondsOf(days, sod) ==
    IF days >= 0
    THEN AddSmall(MulSmall(MulSmall(FromNat(days), 240), 360), sod)
    ELSE AddSmall(Negate(MulSmall(MulSmall(FromNat(-days), 240), 360)), sod)

IsDigit(s, i) == i <= Len(s) /\ s[i] >= 48 /\ s[i] <= 57

RECURSIVE AllDigits(_, _, _)
AllDigits(s, i, j) == i > j \/ (IsDigit(s, i) /\ AllDigits(s, i + 1, j))

\* the decimal number written in s[i..j]
RECURSIVE Num(_, _, _)
Num(s, i, j) ==
    IF i > j THEN 0 ELSE Num(s, i, j - 1) * 10 + (s[j] - 48)

\* time.Parse(timestampLayout, s): [ok, t].  The layout's hour field takes
\* one or two digits, every other field is of fixed width; nothing may
\* follow the six fractional digits.
ParseTimestamp(s) ==
    LET date == /\ Len(s) >= 12
                /\ AllDigits(s, 1, 4) /\ s[5] = 45
                /\ AllDigits(s, 6, 7) /\ s[8] = 45
                /\ AllDigits(s, 9, 10) /\ s[11] = 32
                /\ IsDigit(s, 12)
        o    == IF IsDigit(s, 13) THEN 13 ELSE 12
        tail == /\ Len(s) = o + 13
                /\ s[o + 1] = 58 /\ AllDigits(s, o + 2, o + 3)
                /\ s[o + 4] = 58 /\ AllDigits(s, o + 5, o + 6)
                /\ s[o + 7] = 46 /\ AllDigits(s, o + 8, o + 13)
        y    == Num(s, 1, 4)
        m    == Num(s, 6, 7)
        d    == Num(s, 9, 10)
        hh   == Num(s, 12, o)
        mm   == Num(s, o + 2, o + 3)
        ss   == Num(s, o + 5, o + 6)
        us   == Num(s, o + 8, o + 13)
        fail == [ok |-> FALSE, t |-> ZeroTime]
    IN  IF ~(date /\ tail) THEN fail
        ELSE IF m < 1 \/ m > 12 \/ d < 1 \/ d > DaysIn(y, m) THEN fail
        ELSE IF hh > 23 \/ mm > 59 \/ ss > 59 THEN fail
        ELSE [ok |-> TRUE,
              t  |-> TimeVal(SecondsOf(DaysFromCivil(y, m, d),
                                       hh * 3600 + mm * 60 + ss), us * 1000)]

\* n in decimal, zero-padded to at least w digits
RECURSIVE Pad(_, _)
Pad(n, w) ==
    IF n < 10 /\ w <= 1 THEN <<48 + n>>
    ELSE Append(Pad(n \div 10, w - 1), 48 + (n % 10))

\* the fraction of time.Time.String(): ".fffffffff" without trailing zeros
RECURSIVE TrimZeros(_)
TrimZeros(s) ==
    IF Len(s) > 0 /\ s[Len(s)] = 48 THEN TrimZeros(SubSeq(s, 1, Len(s) - 1)) ELSE s

\* time.Time.String() of an instant in UTC whose day number fits 31 bits:
\* "2006-01-02 15:04:05.999999999 -0700 MST"
TimeString(t) ==
    LET neg  == IsNeg(t.sec)
        mag  == IF neg THEN Negate(t.sec) ELSE t.sec
        q1   == DivSmall(mag, 240)
        q2   == DivSmall(q1.q, 360)
        dd   == ToNat(q2.q)
        r    == q2.r * 240 + q1.r
        days == IF ~neg THEN dd ELSE IF r = 0 THEN -dd ELSE -dd - 1
        sod  == IF ~neg \/ r = 0 THEN r ELSE 86400 - r
        c    == CivilFromDays(days)
        frac == IF t.nsec = 0 THEN <<>> ELSE <<46>> \o TrimZeros(Pad(t.nsec, 9))
    IN  Pad(c.year, 4) \o <<45>> \o Pad(c.month, 2) \o <<45>> \o Pad(c.day, 2)
        \o <<32>> \o Pad(sod \div 3600, 2) \o <<58>> \o Pad((sod \div 60) % 60, 2)
        \o <<58>> \o Pad(sod % 60, 2) \o frac
        \o <<32, 43, 48, 48, 48, 48, 32, 85, 84, 67>>

\* ------------------------------------------------------------------------
\* String, Blob and TimestampWithTimezone conversions
\* ------------------------------------------------------------------------
\* the values with a String() method (fmt.Stringer), and what it returns
IsStringer(v) == v.kind \in {"stringer", "time"}

StringOf(v) == IF v.kind = "time" THEN TimeString(v.val) ELSE v.val

convertToString(v) ==
    CASE v.kind = "string" -> Ok(v)
      [] IsStringer(v)     -> Ok(V("string", StringOf(v)))
      [] OTHER             -> Err("ErrInvalidType")

checkBlob(v) == v.kind = "bytes"

convertToBlob(v) ==
    CASE v.kind = "bytes"  -> Ok(v)
      [] v.kind = "string" -> Ok(V("bytes", v.val))
      [] IsStringer(v)     -> Ok(V("bytes", StringOf(v)))
      [] OTHER             -> Err("ErrInvalidType")

compareBlob(a, b) ==
    IF a.kind # "bytes" \/ b.kind # "bytes" THEN Panic("interface conversion")
    ELSE Ok(CompareBytes(a.val, b.val, 1))

checkTimestamp(v) == v.kind = "time"

convertToTimestamp(v, size) ==
    CASE v.kind = "time" -> Ok(v)
      [] v.kind = "string" ->
            LET p == ParseTimestamp(v.val)
            IN  IF ~p.ok THEN Err("can't be converted to time.Time")
                ELSE Ok(V("time", p.t))
      [] OTHER ->
            IF ~checkInt64(v) THEN Err("ErrInvalidType")
            ELSE LET bi == convertToInt64(v, size)
                 IN  IF bi.status # "ok" THEN Err("ErrInvalidType")
                     ELSE Ok(V("time", TimeUnix(bi.val.val)))

\* a.Before(b)
TimeBefore(x, y) ==
    SLess(x.sec, y.sec) \/ (x.sec = y.sec /\ x.nsec < y.nsec)

compareTimestamp(a, b) ==
    IF a.kind # "time" \/ b.kind # "time" THEN Panic("interface conversion")
    ELSE IF TimeBefore(a.val, b.val) THEN Ok(-1)
    ELSE IF TimeBefore(b.val, a.val) THEN Ok(1)
    ELSE Ok(0)

\* ------------------------------------------------------------------------
\* Null
\* ------------------------------------------------------------------------
checkNull(v) == v.kind = "nil"

convertToNull(v) ==
    IF v.kind # "nil" THEN Err("value not nil") ELSE Ok(Nil)

compareNull(a, b) == Ok(0)

\* ------------------------------------------------------------------------
\* The Type interface over the eight built-in types
\* ------------------------------------------------------------------------
Types == {"Null", "Integer", "BigInteger", "Float", "String", "Boolean",
          "Blob", "TimestampWithTimezone"}

Check(T, v) ==
    CASE T = "Null"       -> checkNull(v)
      [] T = "Integer"    -> checkInt32(v)
      [] T = "BigInteger" -> checkInt64(v)
      [] T = "Float"      -> checkFloat64(v)
      [] T = "String"     -> checkString(v)
      [] T = "Boolean"    -> checkBoolean(v)
      [] T = "Blob"       -> checkBlob(v)
      [] T = "TimestampWithTimezone" -> checkTimestamp(v)

Convert(T, v, size) ==
    CASE T = "Null"       -> convertToNull(v)
      [] T = "Integer"    -> convertToInt32(v, size)
      [] T = "BigInteger" -> convertToInt64(v, size)
      [] T = "Float"      -> convertToFloat64(v)
      [] T = "String"     -> convertToString(v)
      [] T = "Boolean"    -> convertToBool(v)
      [] T = "Blob"       -> convertToBlob(v)
      [] T = "TimestampWithTimezone" -> convertToTimestamp(v, size)

Compare(T, a, b) ==
    CASE T = "Null"       -> compareNull(a, b)
      [] T = "Integer"    -> compareInt32(a, b)
      [] T = "BigInteger" -> compareInt64(a, b)
      [] T = "Float"      -> compareFloat64(a, b)
      [] T = "String"     -> compareString(a, b)
      [] T = "Boolean"    -> compareBool(a, b)
      [] T = "Blob"       -> compareBlob(a, b)
      [] T = "TimestampWithTimezone" -> compareTimestamp(a, b)

Default(T) ==
    CASE T = "Null"       -> Nil
      [] T = "Integer"    -> V("int32", Zero64)
      [] T = "BigInteger" -> V("int64", Zero64)
      [] T = "Float"      -> V("float64", FloatNum(0))
      [] T = "String"     -> V("string", <<>>)
      [] T = "Boolean"    -> V("bool", FALSE)
      [] T = "Blob"       -> V("bytes", <<>>)
      [] T = "TimestampWithTimezone" -> V("time", ZeroTime)

\* MustConvert: Convert, with its error turned into a panic
MustConvert(T, v, size) ==
    LET c == Convert(T, v, size)
    IN  IF c.status # "ok" THEN Panic(c.err) ELSE Ok(c.val)

\* a sqltypes.Value: the wire type tag and the argument its constructor got
Wire(tag, x) == V("sqltypes.Value", [typ |-> tag, arg |-> x])

\* the Go type each SQL method asserts on MustConvert's result, and the
\* sqltypes.Value it builds from it
SQLAssert(T) ==
    CASE T = "Integer"    -> "int32"
      [] T = "BigInteger" -> "int64"
      [] T = "Float"      -> "float64"
      [] T = "String"     -> "string"
      [] T = "Boolean"    -> "bool"
      [] T = "Blob"       -> "bytes"
      [] T = "TimestampWithTimezone" -> "time"

SQLEncode(T, c) ==
    CASE T = "Integer"    -> Wire("Int32", c)
      [] T = "BigInteger" -> Wire("Int64", c)
      [] T = "Float"      -> Wire("Float64", c)
      [] T = "String"     -> Wire("Text", V("bytes", c.val))
      [] T = "Boolean"    -> Wire("Bit", V("bytes", IF c.val THEN <<49>> ELSE <<48>>))
      [] T = "Blob"       -> Wire("Blob", c)
      [] T = "TimestampWithTimezone" ->
            Wire("Timestamp", V("time.Format 2006-01-02 15:04:05", c.val))

SQL(T, v, size) ==
    IF T = "Null" THEN Ok(Wire("Null", Nil))
    ELSE LET m == MustConvert(T, v, size)
         IN  IF m.status = "panic" THEN m
             ELSE IF m.val.kind # SQLAssert(T) THEN Panic("interface conversion")
             ELSE Ok(SQLEncode(T, m.val))

\* ------------------------------------------------------------------------
\* Column and Schema
\* ------------------------------------------------------------------------
\* a Column, by the two fields Check reads: its Type and its Nullable flag
Column(T, nullable) == [Type |-> T, Nullable |-> nullable]

\* faulty variant: a non-nil value passes when the type can convert it
ColumnCheck_Converting(c, v) ==
    IF v.kind = "nil" THEN c.Nullable ELSE Convert(c.Type, v, 64).status = "ok"

ColumnCheck(c, v) ==
    IF v.kind = "nil" THEN c.Nullable ELSE Check(c.Type, v)

\* the loop of CheckRow from position idx (counted from 0) on; `seen` lists
\* the positions whose column was consulted so far
RECURSIVE CheckRowFrom(_, _, _, _)
CheckRowFrom(s, row, idx, seen) ==
    IF idx >= Len(s) THEN [status |-> "ok", err |-> "nil", seen |-> seen]
    ELSE IF ColumnCheck(s[idx + 1], row[idx + 1])
         THEN CheckRowFrom(s, row, idx + 1, Append(seen, idx))
    ELSE IF row[idx + 1].kind = "nil"
         \* reflect.TypeOf(nil) is the nil Type: calling String() on it panics
         THEN [status |-> "panic", err |-> "nil pointer dereference",
               seen |-> Append(seen, idx)]
    ELSE [status |-> "err", err |-> "value has unexpected type",
          idx |-> idx, typ |-> row[idx + 1].kind, seen |-> Append(seen, idx)]

CheckRow(s, row) ==
    IF Len(s) # Len(row)
    THEN [status |-> "err", err |-> "expected values, got",
          expected |-> Len(s), got |-> Len(row), seen |-> <<>>]
    ELSE CheckRowFrom(s, row, 0, <<>>)

\* ------------------------------------------------------------------------
\* The values the operations are applied to
\* ------------------------------------------------------------------------
IntPats ==
    {
      <<0, 0, 0, 0>>,                  \* 0
      <<1, 0, 0, 0>>,                  \* 1
      <<42, 0, 0, 0>>,                 \* 42
      <<127, 0, 0, 0>>,                \* 127
      <<128, 0, 0, 0>>,                \* 128
      <<255, 0, 0, 0>>,                \* 255
      <<65535, 65535, 65535, 65535>>,  \* -1, or 2^64-1 unsigned
      <<65408, 65535, 65535, 65535>>,  \* -128
      <<65407, 65535, 65535, 65535>>,  \* -129
      <<32767, 0, 0, 0>>,              \* 32767
      <<32768, 0, 0, 0>>,              \* 32768
      <<65535, 0, 0, 0>>,              \* 65535
      <<32768, 65535, 65535, 65535>>,  \* -32768
      <<65535, 32767, 0, 0>>,          \* 2^31-1
      <<0, 32768, 0, 0>>,              \* 2^31
      <<65535, 65535, 0, 0>>,          \* 2^32-1
      <<42, 0, 1, 0>>,                 \* 2^32+42
      <<0, 32768, 65535, 65535>>,      \* -2^31
      <<65535, 32767, 65535, 65535>>,  \* -2^31-1
      <<65535, 65535, 65535, 32767>>,  \* 2^63-1
      <<0, 0, 0, 32768>>,              \* 2^63, or -2^63 signed
      <<65494, 65535, 65535, 65535>>   \* 2^64-42, or -42 signed
    }

\* the pattern is a value of integer kind k in a build whose int has `size` bits
Fits(k, p, size) ==
    IF k \in SignedKinds THEN FitsS(p, Width(k, size)) ELSE FitsU(p, Width(k, size))

IntValues(size) ==
    {v \in {V(k, p) : k \in IntKinds, p \in IntPats} : Fits(v.kind, v.val, size)}

Texts ==
    {
      <<52, 50>>,    \* "42"
      <<45, 49>>,    \* "-1"
      <<43, 55>>,    \* "+7"
      <<50, 49, 52, 55, 52, 56, 51, 54, 52, 55>>,    \* "2147483647"
      <<50, 49, 52, 55, 52, 56, 51, 54, 52, 56>>,    \* "2147483648"
      <<45, 50, 49, 52, 55, 52, 56, 51, 54, 52, 56>>,    \* "-2147483648"
      <<45, 50, 49, 52, 55, 52, 56, 51, 54, 52, 57>>,    \* "-2147483649"
      <<52, 50, 57, 52, 57, 54, 55, 51, 51, 56>>,    \* "4294967338"
      <<57, 50, 50, 51, 51, 55, 50, 48, 51, 54, 56, 53, 52, 55, 55, 53, 56, 48, 55>>,    \* "9223372036854775807"
      <<57, 50, 50, 51, 51, 55, 50, 48, 51, 54, 56, 53, 52, 55, 55, 53, 56, 48, 56>>,    \* "9223372036854775808"
      <<45, 57, 50, 50, 51, 51, 55, 50, 48, 51, 54, 56, 53, 52, 55, 55, 53, 56, 48, 56>>,    \* "-9223372036854775808"
      <<>>,    \* ""
      <<45>>,    \* "-"
      <<52, 97>>,    \* "4a"
      <<50, 48, 50, 51, 45, 48, 49, 45, 48, 50, 32, 49, 53, 58, 48, 52, 58, 48, 53, 46, 48, 48, 48, 48, 48, 48>>,    \* "2023-01-02 15:04:05.000000"
      <<50, 48, 50, 51, 45, 48, 50, 45, 51, 48, 32, 49, 53, 58, 48, 52, 58, 48, 53, 46, 48, 48, 48, 48, 48, 48>>    \* "2023-02-30 15:04:05.000000"
    }

Floats == {FloatNum(-3), FloatNum(0), FloatNum(5), NaN}

Times ==
    {ZeroTime, TimeUnix(Zero64), TimeVal(<<1, 0, 0, 0>>, 0),
     TimeVal(<<1, 0, 0, 0>>, 500000000), TimeVal(<<65535, 65535, 65535, 65535>>, 0)}

Values(size) ==
    {Nil} \cup IntValues(size)
    \cup {V("string", t) : t \in Texts}
    \cup {V("stringer", t) : t \in {<<52, 50>>, <<120>>}}
    \cup {V("bytes", t) : t \in {<<>>, <<0>>, <<52, 50>>, <<52, 50, 0>>, <<255>>}}
    \cup {V("bool", x) : x \in BOOLEAN}
    \cup {V("float32", f) : f \in Floats} \cup {V("float64", f) : f \in Floats}
    \cup {V("time", t) : t \in Times}

\* the arguments Compare is applied to: the values the type's Check accepts,
\* the type's Default and nil
CompareArgs(T, size) ==
    {v \in Values(size) : Check(T, v)} \cup {Default(T), Nil}

\* the columns and the row values row validation is applied to
Columns == {Column(T, n) : T \in Types, n \in BOOLEAN}

RowColumns == {Column(T, n) : T \in {"Integer", "String", "Null"}, n \in BOOLEAN}

RowValues ==
    {Nil, V("int32", <<42, 0, 0, 0>>), V("int64", <<42, 0, 0, 0>>),
     V("string", <<52, 50>>), V("float32", FloatNum(5))}

SeqsUpTo(S, n) == UNION {[1..k -> S] : k \in 0..n}

\* ------------------------------------------------------------------------
\* The state machine: one action per exported operation
\* ------------------------------------------------------------------------
Call(op, recv, args) == [op |-> op, recv |-> recv, args |-> args]

\* no call is in progress: the caller may make the next one
Idle == call.op = "none"

Init ==
    /\ intSize \in {32, 64}
    /\ call = Call("none", "none", <<>>)
    /\ ret = Ok(Nil)

DoCheck ==
    /\ Idle
    /\ \E T \in Types, v \in Values(intSize) :
        /\ call' = Call("Check", T, <<v>>)
        /\ ret' = Ok(Check(T, v))
        /\ UNCHANGED intSize

DoConvert ==
    /\ Idle
    /\ \E T \in Types, v \in Values(intSize) :
        /\ call' = Call("Convert", T, <<v>>)
        /\ ret' = Convert(T, v, intSize)
        /\ UNCHANGED intSize

DoCompare ==
    /\ Idle
    /\ \E T \in Types :
        \E a \in CompareArgs(T, intSize), b \in CompareArgs(T, intSize) :
            /\ call' = Call("Compare", T, <<a, b>>)
            /\ ret' = Compare(T, a, b)
            /\ UNCHANGED intSize

DoDefault ==
    /\ Idle
    /\ \E T \in Types :
        /\ call' = Call("Default", T, <<>>)
        /\ ret' = Ok(Default(T))
        /\ UNCHANGED intSize

DoMustConvert ==
    /\ Idle
    /\ \E T \in Types, v \in Values(intSize) :
        /\ call' = Call("MustConvert", T, <<v>>)
        /\ ret' = MustConvert(T, v, intSize)
        /\ UNCHANGED intSize

DoSQL ==
    /\ Idle
    /\ \E T \in Types, v \in Values(intSize) :
        /\ call' = Call("SQL", T, <<v>>)
        /\ ret' = SQL(T, v, intSize)
        /\ UNCHANGED intSize

DoColumnCheck ==
    /\ Idle
    /\ \E c \in Columns, v \in Values(intSize) :
        /\ call' = Call("Column.Check", c, <<v>>)
        /\ ret' = Ok(ColumnCheck(c, v))
        /\ UNCHANGED intSize

DoCheckRow ==
    /\ Idle
    /\ \E s \in SeqsUpTo(RowColumns, MaxCols), row \in SeqsUpTo(RowValues, MaxCols) :
        /\ call' = Call("Schema.CheckRow", s, <<row>>)
        /\ ret' = CheckRow(s, row)
        /\ UNCHANGED intSize

\* the caller has taken the result
Return ==
    /\ ~Idle
    /\ call' = Call("none", "none", <<>>)
    /\ ret' = Ok(Nil)
    /\ UNCHANGED intSize

Next ==
    \/ DoCheck
    \/ DoConvert
    \/ DoCompare
    \/ DoDefault
    \/ DoMustConvert
    \/ DoSQL
    \/ DoColumnCheck
    \/ DoCheckRow
    \/ Return

Spec == Init /\ [][Next]_vars

\* ------------------------------------------------------------------------
\* Properties
\* ------------------------------------------------------------------------
\* the numeric value of two integer values is the same
SameNumber(a, b) ==
    /\ a.val = b.val
    /\ \/ ~IsNeg(a.val)
       \/ (a.kind \in SignedKinds) = (b.kind \in SignedKinds)

\* the numeric value of an integer value lies in [-2^31, 2^31-1]
InInt32Range(v) ==
    IF v.kind \in SignedKinds THEN FitsS(v.val, 32)
    ELSE FitsU(v.val, 32) /\ v.val[2] < 32768

\* decimal text: an optional sign, then one digit or more
Digits(s) == IF Len(s) > 0 /\ s[1] \in {43, 45} THEN Tail(s) ELSE s

IsDecimal(s) == Len(Digits(s)) > 0 /\ AllDigits(Digits(s), 1, Len(Digits(s)))

\* the number a decimal text writes: its magnitude (with `range` set when it
\* needs more than 64 bits) and its sign
Magnitude(s) ==
    ParseUint(Digits(s), 1, [syntax |-> FALSE, range |-> FALSE, pat |-> Zero64])

IsMinus(s) == s[1] = 45 /\ Magnitude(s).pat # Zero64

\* the number a decimal text writes lies in [-2^31, 2^31-1]
TextInInt32Range(s) ==
    /\ ~Magnitude(s).range
    /\ IF IsMinus(s) THEN ~ULess(Cutoff32, Magnitude(s).pat)
       ELSE ULess(Magnitude(s).pat, Cutoff32)

\* C1: Integer.Convert of an integer of any width, or of decimal text, fails
\* with an overflow error when the number lies outside [-2^31, 2^31-1] and
\* otherwise returns the int32 of the same number, never a wrapped one.
C1_IntegerConvertRange ==
    (call.op = "Convert" /\ call.recv = "Integer") =>
        LET v == call.args[1]
        IN  /\ v.kind \in IntKinds =>
                IF InInt32Range(v)
                THEN ret.status = "ok" /\ ret.val.kind = "int32" /\ SameNumber(ret.val, v)
                ELSE ret.status = "err" /\ ret.err = "overflows int32"
            /\ (v.kind = "string" /\ IsDecimal(v.val)) =>
                IF TextInInt32Range(v.val)
                THEN ret = Ok(V("int32", IF IsMinus(v.val)
                                         THEN Negate(Magnitude(v.val).pat)
                                         ELSE Magnitude(v.val).pat))
                ELSE ret.status = "err" /\ ret.err = "overflows int32"

\* C2: BigInteger.Convert of an unsigned integer of any width fails with an
\* overflow error when the number is 2^63 or more and otherwise returns the
\* int64 of the same number.
C2_BigIntegerConvertUnsigned ==
    (call.op = "Convert" /\ call.recv = "BigInteger"
        /\ call.args[1].kind \in UnsignedKinds) =>
        LET v == call.args[1]
        IN  IF IsNeg(v.val)
            THEN ret.status = "err" /\ ret.err = "overflows int64"
            ELSE ret = Ok(V("int64", v.val))

\* C3: Schema.CheckRow returns success or an error for every schema and row;
\* it never panics.
C3_CheckRowNeverAborts ==
    call.op = "Schema.CheckRow" => ret.status \in {"ok", "err"}

\* C4: T.SQL(v) completes for every value v that T.Check accepts, and
\* MustConvert panics only on a value that T.Check rejects.
C4_SQLOfCheckedValueCompletes ==
    /\ (call.op = "SQL" /\ Check(call.recv, call.args[1])) => ret.status = "ok"
    /\ (call.op = "MustConvert" /\ ret.status = "panic") =>
            ~Check(call.recv, call.args[1])

\* C5: Convert is idempotent: when T.Check(v) holds, T.Convert(v) returns v
\* itself (same kind, same payload) and no error.
C5_ConvertIdempotent ==
    (call.op = "Convert" /\ Check(call.recv, call.args[1])) =>
        ret = Ok(call.args[1])

C5_Witness ==
    /\ call.op = "Convert" /\ call.recv = "Float"
    /\ Check("Float", call.args[1])
    /\ ret.status = "ok"

\* C6: every type's Default() is a value its own Check accepts.
C6_DefaultIsCanonical ==
    call.op = "Default" => Check(call.recv, ret.val)

\* C7: TimestampWithTimezone.Convert of an integer of any kind that
\* BigInteger.Convert accepts returns the instant that many seconds after the
\* Unix epoch.
C7_TimestampFromAnyInteger ==
    (call.op = "Convert" /\ call.recv = "TimestampWithTimezone"
        /\ call.args[1].kind \in IntKinds
        /\ convertToInt64(call.args[1], intSize).status = "ok") =>
        ret = Ok(V("time", TimeUnix(convertToInt64(call.args[1], intSize).val.val)))

\* the positions (from 0) of a row that fail their column's Check
Failing(s, row) ==
    {i \in 0..(Len(s) - 1) : ~ColumnCheck(s[i + 1], row[i + 1])}

First(S) == CHOOSE i \in S : \A j \in S : i <= j

\* C8: CheckRow compares the lengths first and, when they differ, returns the
\* length error (expected and actual count) without consulting a column;
\* otherwise it consults the columns in increasing order, returns an error
\* naming the first failing position when there is one, and success when
\* there is none.
C8_CheckRowContract ==
    call.op = "Schema.CheckRow" =>
        LET s   == call.recv
            row == call.args[1]
        IN  IF Len(s) # Len(row)
            THEN /\ ret.status = "err" /\ ret.err = "expected values, got"
                 /\ ret.expected = Len(s) /\ ret.got = Len(row)
                 /\ ret.seen = <<>>
            ELSE IF Failing(s, row) # {}
            THEN /\ ret.status = "err" /\ ret.err = "value has unexpected type"
                 /\ ret.idx = First(Failing(s, row))
                 /\ ret.seen = [k \in 1..(ret.idx + 1) |-> k - 1]
            ELSE /\ ret.status = "ok"
                 /\ ret.seen = [k \in 1..Len(s) |-> k - 1]

\* C9: on values its Check accepts, every type's Compare returns -1, 0 or 1
\* and Compare(a, b) = -Compare(b, a); Boolean orders false before true.
C9_CompareAntisymmetric ==
    (call.op = "Compare" /\ Check(call.recv, call.args[1])
        /\ Check(call.recv, call.args[2])) =>
        LET a == call.args[1]
            b == call.args[2]
        IN  /\ ret.status = "ok"
            /\ ret.val \in {-1, 0, 1}
            /\ Compare(call.recv, b, a) = Ok(-ret.val)
            /\ call.recv = "Boolean" =>
                  ret.val = (IF a.val = b.val THEN 0 ELSE IF b.val THEN -1 ELSE 1)

C9_Witness ==
    /\ call.op = "Compare" /\ call.recv = "Boolean"
    /\ call.args = <<V("bool", FALSE), V("bool", TRUE)>>
    /\ ret = Ok(-1)

\* C10: Column.Check returns the Nullable flag for nil, whatever the type,
\* and otherwise exactly what the type's Check returns: it converts nothing,
\* so a value Convert would accept but Check does not is rejected.
C10_ColumnCheck ==
    call.op = "Column.Check" =>
        LET c == call.recv
            v == call.args[1]
        IN  /\ ret.status = "ok"
            /\ v.kind = "nil" => ret.val = c.Nullable
            /\ v.kind # "nil" => ret.val = Check(c.Type, v)
            /\ (c.Type = "Integer" /\ v.kind = "int64") => ret.val = FALSE

C10_Witness ==
    /\ call.op = "Column.Check" /\ call.recv.Type = "Integer"
    /\ call.args[1].kind = "int64"
    /\ Convert("Integer", call.args[1], intSize).status = "ok"
    /\ ret = Ok(FALSE)

====
